---- MODULE Spec2Model ----
(***************************************************************************)
(* A model of the topic recorder of ign-transport                          *)
(* (log/src/Recorder.cc): the log lifecycle (Start / Stop / destructor),   *)
(* the raw message callback, the advertisement callback and the two        *)
(* AddTopic overloads, run by an application thread, a discovery thread    *)
(* and one subscriber thread per topic.                                    *)
(*                                                                         *)
(* Every handler is cut into steps at its accesses to shared state: a      *)
(* mutex acquisition, an access to alreadySubscribed or patterns, an       *)
(* external call.  Code that runs under logFileMutex is one step (nothing  *)
(* else can observe its intermediate states).  The topic-side functions    *)
(* take no lock in the source, so their steps interleave freely.           *)
(*                                                                         *)
(* The second part models the discovery packet codec (src/Packet.cc):     *)
(* Header and SubscriptionMsg, packed into and unpacked from a caller's     *)
(* buffer of bytes.  It has its own specification, PacketSpec; the          *)
(* recorder's specification is Spec.                                        *)
(*                                                                         *)
(* Not modelled: the time stamps of a row (wallMinusMono, utcNS) and the   *)
(* message type and payload; a row is identified by the file it went to    *)
(* and the sequence number of the delivery on its topic.                   *)
(***************************************************************************)
EXTENDS Integers, Sequences, FiniteSets, TLC

\* ------------------------------------------------------------- bounds ----
\* What the environment hands to the recorder: public calls by the
\* application thread, advertisements and messages.
MaxEvents == 4

\* ----------------------------------------------------------- universe ----
None == "none"

\* Threads are named by tuples; Unlocked is the owner of a free mutex.
Unlocked == <<>>
App  == <<"app">>
Disc == <<"disc">>
Topics == {"sensor/imu", "cmd"}
SubThread(t) == <<"sub", t>>
SubThreads == {SubThread(t) : t \in Topics}
Threads == {App, Disc} \cup SubThreads

Paths == {"a.log", "b.log"}

\* A std::regex is modelled by its source text; Language gives the topic
\* names (of Topics) that std::regex_match accepts for it.
Regexes == {"^sensor/.*", ".*"}
Language(r) ==
  CASE r = "^sensor/.*" -> {"sensor/imu"}
    [] r = ".*"         -> {"sensor/imu", "cmd"}
    [] OTHER            -> {}

\* Node::TopicList: the topics currently known to the node, without repeats.
TopicLists == {<<>>, <<"cmd">>, <<"cmd", "sensor/imu">>}

\* Partitions as character sequences (strcmp walks them).
NodePartitions == {<<"/", "r">>, <<"r">>}
AdvPartitions  == {<<"/", "r">>, <<"/", "o">>}

\* RecorderError
NO_ERROR            == "NO_ERROR"
FAILED_TO_OPEN      == "FAILED_TO_OPEN"
FAILED_TO_SUBSCRIBE == "FAILED_TO_SUBSCRIBE"
ALREADY_RECORDING   == "ALREADY_RECORDING"

\* What a function returns: a RecorderError, a count (the int64_t of
\* AddTopic(regex)) or nothing.
RetVoid     == [void |-> TRUE]
RetErr(e)   == [err |-> e]
RetCount(n) == [count |-> n]

\* The return of a public function or of a callback: which one, and its value.
NoRet == [op |-> "none"]
Returned(op, v) == [op |-> op, val |-> v]
\* OnAdvertisement returns nothing; the record keeps what was advertised and
\* whether the handler returned before its loop (the advertisement ignored).
AdvReturned(q, t, early) ==
  [op |-> "OnAdvertisement", val |-> RetVoid, partition |-> q, topic |-> t,
   ignored |-> early]

\* The external call a step makes, if any.
NoCall == [kind |-> "none"]
OpenCall(p, ok)        == [kind |-> "Open", path |-> p, ok |-> ok]
InsertCall(f, t, n, ok) ==
  [kind |-> "InsertMessage", path |-> f, topic |-> t, seq |-> n, ok |-> ok]
SubscribeCall(t, ok)   == [kind |-> "SubscribeRaw", topic |-> t, ok |-> ok]
TopicListCall          == [kind |-> "TopicList"]


\* ------------------------------------------------- Packet.cc: the data ---
\* Header::type of a header that was not filled in.
Uninitialized == 0

\* A decoded length saturates here: it is beyond every buffer of the model.
Huge == 1048576

\* The host's byte order: the same for every memcpy of one process.
ByteOrders == {"little", "big"}

\* Strings are sequences of bytes.
DefaultHeader == [version |-> 0, pUuid |-> <<>>, type |-> Uninitialized, flags |-> 0]
Versions == {0, 1, 258}
PUuids   == {<<>>, <<97>>, <<97, 0>>}
Types    == {Uninitialized, 1, 2}
Flags    == {0, 513}
Headers  == [version : Versions, pUuid : PUuids, type : Types, flags : Flags]
PacketTopics == {<<>>, <<116>>, <<116, 47>>}
OldHeaders == {DefaultHeader,
               [version |-> 7, pUuid |-> <<120>>, type |-> 3, flags |-> 9]}

\* A char *: null, or the start of a region of cap bytes owned by the caller.
NullBuffer == [null |-> TRUE, cap |-> 0, bytes |-> <<>>]
Capacities == {4, 16, 32}
Buffers ==
  {NullBuffer} \cup
  {[null |-> FALSE, cap |-> c, bytes |-> [i \in 1..c |-> 0]] : c \in Capacities}

\* Byte i (0 = least significant) of the unsigned integer n.
RECURSIVE Byte(_, _)
Byte(n, i) == IF i = 0 THEN n % 256 ELSE Byte(n \div 256, i - 1)

Reverse(s) == [i \in 1..Len(s) |-> s[Len(s) + 1 - i]]

\* (mutant) the bytes are stored in the order opposite to the host's.
ObjectBytesSwapped(n, w, e) ==
  IF e = "little" THEN Reverse([i \in 1..w |-> Byte(n, i - 1)])
                  ELSE [i \in 1..w |-> Byte(n, i - 1)]

\* memcpy(_buffer, &n, w): the w bytes of the object n, in host order.
ObjectBytes(n, w, e) ==
  IF e = "little" THEN [i \in 1..w |-> Byte(n, i - 1)]
                  ELSE Reverse([i \in 1..w |-> Byte(n, i - 1)])

\* The value of bytes given most significant first.
RECURSIVE BigValue(_)
BigValue(s) ==
  IF s = <<>> THEN 0
  ELSE LET v == BigValue(SubSeq(s, 1, Len(s) - 1)) * 256 + s[Len(s)]
       IN  IF v > Huge THEN Huge ELSE v

\* memcpy(&n, _buffer, w): the object whose bytes, in host order, are bs.
ObjectValue(bs, e) == BigValue(IF e = "little" THEN Reverse(bs) ELSE bs)

\* Does [off, off + n) lie inside the region?
Fits(buf, off, n) == off + n <= buf.cap

\* memcpy(_buffer + off, data, Len(data)); the part that falls beyond the
\* region goes to memory the buffer does not own.
Memcpy(buf, off, data) ==
  [buf EXCEPT !.bytes = [i \in 1..buf.cap |->
     IF i > off /\ i <= off + Len(data) THEN data[i - off] ELSE @[i]]]

\* The n bytes at _buffer + off (inside the region).
Fetch(buf, off, n) == SubSeq(buf.bytes, off + 1, off + n)

\* Header::HeaderLength
HeaderLength(h) == 2 + 8 + Len(h.pUuid) + 1 + 2

\* Header::Pack's first test ("Uninitialized").
Incomplete(h) == h.version = 0 \/ h.pUuid = <<>> \/ h.type = Uninitialized

\* The five memcpy of Header::Pack, in order.
PackedHeader(buf, h, e) ==
  LET L  == Len(h.pUuid)
      b1 == Memcpy(buf, 0, ObjectBytes(h.version, 2, e))
      b2 == Memcpy(b1, 2, ObjectBytes(L, 8, e))
      b3 == Memcpy(b2, 10, h.pUuid)
      b4 == Memcpy(b3, 10 + L, ObjectBytes(h.type, 1, e))
  IN  Memcpy(b4, 11 + L, ObjectBytes(h.flags, 2, e))

\* uint64_t pUuidLength as Header::Unpack reads it.
StoredUuidLength(buf, e) == ObjectValue(Fetch(buf, 2, 8), e)

\* Header::Unpack reads inside the region only.
HeaderReadable(buf, e) ==
  Fits(buf, 0, 10) /\ Fits(buf, 0, 13 + StoredUuidLength(buf, e))

\* The fields Header::Unpack assigns.
UnpackedHeader(buf, e) ==
  LET L == StoredUuidLength(buf, e) IN
  [version |-> ObjectValue(Fetch(buf, 0, 2), e),
   pUuid   |-> Fetch(buf, 10, L),
   type    |-> ObjectValue(Fetch(buf, 10 + L, 1), e),
   flags   |-> ObjectValue(Fetch(buf, 11 + L, 2), e)]

\* (mutant) the length leaves out the topic's length field.
MsgLengthNoPrefix(m) == HeaderLength(m.header) + Len(m.topic)

\* SubscriptionMsg::MsgLength
MsgLength(m) == HeaderLength(m.header) + 8 + Len(m.topic)

\* The two memcpy of SubscriptionMsg::Pack behind the header.
PackedBody(buf, off, topic, e) ==
  Memcpy(Memcpy(buf, off, ObjectBytes(Len(topic), 8, e)), off + 8, topic)

\* uint64_t topicLength as SubscriptionMsg::Unpack reads it at _buffer + off.
StoredTopicLength(buf, off, e) == ObjectValue(Fetch(buf, off, 8), e)

BodyReadable(buf, off, e) ==
  Fits(buf, off, 8) /\ Fits(buf, off, 8 + StoredTopicLength(buf, off, e))

\* What a codec function returns.  A call that left the caller's region has
\* undefined behaviour: it may return or end the process.
NoPacketRet == [op |-> "none", val |-> 0, crashed |-> FALSE]
PacketReturned(op, v) == [op |-> op, val |-> v, crashed |-> FALSE]
PacketCrashed(op) == [op |-> op, val |-> 0, crashed |-> TRUE]

\* Unknown memory read into a header.
GarbageHeader ==
  [version |-> 65535, pUuid |-> <<255>>, type |-> 255, flags |-> 65535]

VARIABLES
  logFile,            \* RecorderPrivate::logFile: None or the path it was opened on
  logFileMutex,       \* owner of logFileMutex, or Unlocked
  patterns,           \* RecorderPrivate::patterns
  alreadySubscribed,  \* RecorderPrivate::alreadySubscribed
  nodePartition,      \* node.Options().Partition()
  alive,              \* FALSE once ~Recorder has run
  pc,                 \* per thread: where it stands
  loc,                \* per thread: its locals
  ret,                \* the return the last step made, if it made one
  events,             \* public calls, advertisements and messages so far
  delivered,          \* per topic: messages handed to the raw callback so far
  subscribed,         \* per topic: SubscribeRaw calls that returned true
  inserted,           \* per topic: the rows InsertMessage was called with, in order
  call,               \* the external call made by the last step
  startedOn,          \* history: the path of the Start that returned NO_ERROR
                      \* with no Stop since, or None
  lastLog,            \* history: how the last two Start or Stop calls ended
  advInserted,        \* history: the topics inserted by OnAdvertisement
  topicMutex,         \* owner of RecorderPrivate::topicMutex, or Unlocked
  endian,             \* the host's byte order
  sender,             \* the SubscriptionMsg (header, topic) that is packed
  receiver,           \* the Header and the topic that are unpacked into
  buffer,             \* the caller's buffer
  packed,             \* history: what Pack has put into the buffer
  packetRet,          \* the return of the last codec call
  defined             \* FALSE once a codec call left the buffer's region

vars == <<logFile, logFileMutex, patterns, alreadySubscribed, nodePartition,
          alive, pc, loc, ret, events, delivered, subscribed, inserted, call,
          startedOn, lastLog, advInserted, topicMutex,
          endian, sender, receiver, buffer, packed, packetRet, defined>>

logVars   == <<logFile, inserted>>
topicVars == <<patterns, alreadySubscribed, subscribed, advInserted>>
packetVars == <<endian, sender, receiver, buffer, packed, packetRet, defined>>
\* What no function of the recorder assigns.
envVars   == <<nodePartition, topicMutex, packetVars>>
recorderVars == <<logFile, logFileMutex, patterns, alreadySubscribed,
                  nodePartition, alive, pc, loc, ret, events, delivered,
                  subscribed, inserted, call, startedOn, lastLog, advInserted,
                  topicMutex>>
histVars  == <<startedOn, lastLog>>

NoLocals == [op |-> "none"]

Goto(t, label, locals) ==
  /\ pc'  = [pc  EXCEPT ![t] = label]
  /\ loc' = [loc EXCEPT ![t] = locals]

Return(t) == Goto(t, "idle", NoLocals)

\* ---------------------------------------------------------------- Init ---
\* The recorder after construction, on a node of partition p.
RecorderInit(p) ==
  /\ logFile = None
  /\ logFileMutex = Unlocked
  /\ topicMutex = Unlocked
  /\ patterns = <<>>
  /\ alreadySubscribed = {}
  /\ nodePartition = p
  /\ alive = TRUE
  /\ pc = [t \in Threads |-> "idle"]
  /\ loc = [t \in Threads |-> NoLocals]
  /\ ret = NoRet
  /\ events = 0
  /\ delivered = [t \in Topics |-> 0]
  /\ subscribed = [t \in Topics |-> 0]
  /\ inserted = [t \in Topics |-> <<>>]
  /\ call = NoCall
  /\ startedOn = None
  /\ lastLog = <<"none", "none">>
  /\ advInserted = {}

\* The codec's objects: the message to send, the objects to receive into
\* and the caller's buffer.
PacketObjects(orders, headers, topics, olds, buffers) ==
  /\ endian \in orders
  /\ sender \in [header : headers, topic : topics]
  /\ receiver \in [header : olds, topic : {<<>>}]
  /\ buffer \in buffers
  /\ packed = "nothing"
  /\ packetRet = NoPacketRet
  /\ defined = TRUE

Init ==
  /\ \E p \in NodePartitions : RecorderInit(p)
  /\ PacketObjects({"little"}, {DefaultHeader}, {<<>>}, {DefaultHeader},
                   {NullBuffer})

\* What a step shows to the outside: the external call it makes and the
\* value it returns to the application thread.
Out(c, r) == call' = c /\ ret' = r
Silent == Out(NoCall, NoRet)

\* History: a Start or a Stop ended with e.
Ended(e) == lastLog' = <<lastLog[2], e>>

\* --------------------------------------------------------- logFileMutex --
\* (mutant) the thread enters without waiting for the mutex.
LockNoWait(t, from, to) ==
  /\ alive
  /\ pc[t] = from
  /\ logFileMutex' = t
  /\ pc' = [pc EXCEPT ![t] = to]
  /\ Silent
  /\ UNCHANGED <<logVars, topicVars, envVars, alive, loc, delivered, events, histVars>>

\* std::lock_guard<std::mutex> lock(logFileMutex): blocks until the mutex is free.
Lock(t, from, to) ==
  /\ alive
  /\ pc[t] = from
  /\ logFileMutex = Unlocked
  /\ logFileMutex' = t
  /\ pc' = [pc EXCEPT ![t] = to]
  /\ Silent
  /\ UNCHANGED <<logVars, topicVars, envVars, alive, loc, delivered, events, histVars>>

\* ------------------------------------------------------- Recorder::Start --
CallStart ==
  /\ alive /\ pc[App] = "idle" /\ events < MaxEvents
  /\ \E p \in Paths : Goto(App, "start_lock", [op |-> "Start", file |-> p])
  /\ events' = events + 1
  /\ Silent
  /\ UNCHANGED <<logVars, topicVars, envVars, alive, logFileMutex, delivered, histVars>>

StartLock == Lock(App, "start_lock", "start_body")

\* (mutant) Start does not test logFile.
AlreadyRecordingNever(lf) == FALSE

\* if (this->dataPtr->logFile)
AlreadyRecording(lf) == lf # None

\* (mutant) a failed Open leaves the new Log in logFile.
AfterOpenKeeps(file, ok) == file

\* logFile after Open returned ok: reset(nullptr) when it failed.
AfterOpen(file, ok) == IF ok THEN file ELSE None

\* The body of Start, run while holding logFileMutex; the lock_guard releases
\* the mutex on return.  Log::Open is external: it succeeds or fails.
StartBody ==
  /\ alive /\ pc[App] = "start_body"
  /\ IF AlreadyRecording(logFile)
       THEN /\ Out(NoCall, Returned("Start", RetErr(ALREADY_RECORDING)))
            /\ Ended(ALREADY_RECORDING)
            /\ UNCHANGED <<logFile, startedOn>>
       ELSE \E ok \in BOOLEAN :
            /\ logFile' = AfterOpen(loc[App].file, ok)
            /\ Out(OpenCall(loc[App].file, ok),
                   Returned("Start", RetErr(IF ok THEN NO_ERROR ELSE FAILED_TO_OPEN)))
            /\ Ended(IF ok THEN NO_ERROR ELSE FAILED_TO_OPEN)
            /\ startedOn' = (IF ok THEN loc[App].file ELSE startedOn)
  /\ logFileMutex' = Unlocked
  /\ Return(App)
  /\ UNCHANGED <<inserted, topicVars, envVars, alive, delivered, events>>

\* -------------------------------------------------------- Recorder::Stop --
CallStop ==
  /\ alive /\ pc[App] = "idle" /\ events < MaxEvents
  /\ Goto(App, "stop_lock", [op |-> "Stop"])
  /\ events' = events + 1
  /\ Silent
  /\ UNCHANGED <<logVars, topicVars, envVars, alive, logFileMutex, delivered, histVars>>

\* Recorder::~Recorder: dataPtr is set (the object was not moved from), so it
\* calls Stop.  The Recorder's lifetime ends when that Stop returns.
CallDestructor ==
  /\ alive /\ pc[App] = "idle" /\ events < MaxEvents
  /\ Goto(App, "stop_lock", [op |-> "~Recorder"])
  /\ events' = events + 1
  /\ Silent
  /\ UNCHANGED <<logVars, topicVars, envVars, alive, logFileMutex, delivered, histVars>>

StopLock == Lock(App, "stop_lock", "stop_body")

\* (mutant) Stop leaves logFile as it is.
ResetNothing(lf) == lf

\* this->dataPtr->logFile.reset(nullptr)
Reset(lf) == None

\* (mutant) Stop also drops the subscriptions.
StopBodyCancels ==
  /\ alive /\ pc[App] = "stop_body"
  /\ logFile' = Reset(logFile)
  /\ logFileMutex' = Unlocked
  /\ alive' = (loc[App].op # "~Recorder")
  /\ Out(NoCall, Returned(loc[App].op, RetVoid))
  /\ startedOn' = None
  /\ Ended("Stop")
  /\ Return(App)
  /\ alreadySubscribed' = {}
  /\ subscribed' = [t \in Topics |-> 0]
  /\ UNCHANGED <<inserted, patterns, advInserted, envVars, delivered, events>>

StopBody ==
  /\ alive /\ pc[App] = "stop_body"
  /\ logFile' = Reset(logFile)
  /\ logFileMutex' = Unlocked
  /\ alive' = (loc[App].op # "~Recorder")
  /\ Out(NoCall, Returned(loc[App].op, RetVoid))
  /\ startedOn' = None
  /\ Ended("Stop")
  /\ Return(App)
  /\ UNCHANGED <<inserted, topicVars, envVars, delivered, events>>

\* ------------------------------------- RecorderPrivate::OnMessageReceived --
\* The node invokes the raw callback for the next message of a subscribed
\* topic, on that subscription's thread; the handler runs up to the lock.
Deliver(t) ==
  /\ alive /\ pc[SubThread(t)] = "idle"
  /\ subscribed[t] > 0
  /\ events < MaxEvents
  /\ events' = events + 1
  /\ delivered' = [delivered EXCEPT ![t] = @ + 1]
  /\ Goto(SubThread(t), "msg_lock",
          [op |-> "OnMessageReceived", topic |-> t, seq |-> delivered[t] + 1])
  /\ Silent
  /\ UNCHANGED <<logVars, topicVars, envVars, alive, logFileMutex, histVars>>

MsgLock(t) == Lock(SubThread(t), "msg_lock", "msg_body")

\* (mutant) the handler does not test logFile.
RecordingAlways(lf) == TRUE

\* if (this->logFile && ...)
Recording(lf) == lf # None

\* (mutant) the row is put in front of the rows inserted so far.
InsertMessageFront(rows, f, n) == <<[path |-> f, seq |-> n]>> \o rows

\* (mutant) a second attempt follows the first.
InsertMessageTwice(rows, f, n) ==
  Append(Append(rows, [path |-> f, seq |-> n]), [path |-> f, seq |-> n])

\* Log::InsertMessage adds a row at the end of the log.
InsertMessage(rows, f, n) == Append(rows, [path |-> f, seq |-> n])

\* The body of OnMessageReceived under the lock.  InsertMessage is external:
\* it returns true or false; false only logs a warning.
MsgBody(t) ==
  LET s == SubThread(t) IN
  /\ alive /\ pc[s] = "msg_body"
  /\ IF Recording(logFile)
       THEN \E ok \in BOOLEAN :
            /\ inserted' = [inserted EXCEPT ![t] = InsertMessage(@, logFile, loc[s].seq)]
            /\ Out(InsertCall(logFile, t, loc[s].seq, ok),
                   Returned("OnMessageReceived", RetVoid))
       ELSE /\ Out(NoCall, Returned("OnMessageReceived", RetVoid))
            /\ UNCHANGED inserted
  /\ logFileMutex' = Unlocked
  /\ Return(s)
  /\ UNCHANGED <<logFile, topicVars, envVars, alive, delivered, events, histVars>>

\* ------------------------------ RecorderPrivate::AddTopic(const string &) --
\* Node::SubscribeRaw is external: it returns true or false.  `subscribed`
\* counts the calls that returned true.
SubscribeRaw(t, ok) ==
  subscribed' = [subscribed EXCEPT ![t] = @ + (IF ok THEN 1 ELSE 0)]

\* this->alreadySubscribed.insert(_topic)
InsertTopic(set, t) == set \cup {t}

\* No function of the topic side locks topicMutex, so an access to
\* alreadySubscribed by one thread can overlap an insert by the other: a
\* data race on the std::set.  A thread standing at its insert is taken to
\* overlap the access the other thread makes in that state.
AppInserting  == pc[App] \in {"at_ins", "ar_ins"}
DiscInserting == pc[Disc] = "adv_ins"

\* What an insert can leave behind: the set with the topic, or, when it races
\* with the other thread's insert, also the set without it (the node is lost).
InsertOutcomes(set, t, racing) ==
  IF racing THEN {InsertTopic(set, t), set} ELSE {InsertTopic(set, t)}

\* Recorder::AddTopic(name) up to the return of SubscribeRaw.
CallAddTopic ==
  /\ alive /\ pc[App] = "idle" /\ events < MaxEvents
  /\ events' = events + 1
  /\ \E t \in Topics, ok \in BOOLEAN :
       /\ SubscribeRaw(t, ok)
       /\ IF ok
            THEN /\ Goto(App, "at_ins", [op |-> "AddTopic", topic |-> t])
                 /\ Out(SubscribeCall(t, ok), NoRet)
            ELSE /\ Return(App)
                 /\ Out(SubscribeCall(t, ok),
                        Returned("AddTopic", RetErr(FAILED_TO_SUBSCRIBE)))
  /\ UNCHANGED <<logVars, patterns, alreadySubscribed, envVars, alive,
                 logFileMutex, delivered, histVars,
                 advInserted>>

AddTopicInsert ==
  /\ alive /\ pc[App] = "at_ins"
  /\ alreadySubscribed' \in
       InsertOutcomes(alreadySubscribed, loc[App].topic, DiscInserting)
  /\ Out(NoCall, Returned("AddTopic", RetErr(NO_ERROR)))
  /\ Return(App)
  /\ UNCHANGED <<logVars, patterns, subscribed, envVars, alive, logFileMutex,
                 delivered, events, histVars,
                 advInserted>>

\* ------------------------------- RecorderPrivate::AddTopic(const regex &) --
\* std::regex_match(topic, pattern)
RegexMatch(t, r) == t \in Language(r)

\* (mutant) the pattern is put in front.
PushFront(ps, r) == <<r>> \o ps

\* this->patterns.push_back(_pattern)
PushBack(ps, r) == Append(ps, r)

\* The call fetches the node's topic list into the local allTopics.  The
\* field `added` is history: the topics this call has put into
\* alreadySubscribed that were not in it.
CallAddPattern ==
  /\ alive /\ pc[App] = "idle" /\ events < MaxEvents
  /\ \E r \in Regexes, l \in TopicLists :
       Goto(App, "ar_loop", [op |-> "AddTopicRegex", pattern |-> r,
                             allTopics |-> l, i |-> 1, numSubscriptions |-> 0,
                             added |-> 0])
  /\ events' = events + 1
  /\ Out(TopicListCall, NoRet)
  /\ UNCHANGED <<logVars, topicVars, envVars, alive, logFileMutex, delivered, histVars>>

InPatternLoop ==
  /\ alive /\ pc[App] = "ar_loop" /\ loc[App].i <= Len(loc[App].allTopics)

\* The topic matches: AddTopic(topic) subscribes to it; on failure the call
\* returns static_cast<int64_t>(FAILED_TO_SUBSCRIBE) at once.
PatternSubscribe ==
  LET l == loc[App]
      t == l.allTopics[l.i] IN
  /\ InPatternLoop
  /\ RegexMatch(t, l.pattern)
  /\ \E ok \in BOOLEAN :
       /\ SubscribeRaw(t, ok)
       /\ IF ok
            THEN /\ Goto(App, "ar_ins", l)
                 /\ Out(SubscribeCall(t, ok), NoRet)
            ELSE /\ Return(App)
                 /\ Out(SubscribeCall(t, ok),
                        Returned("AddTopicRegex", RetErr(FAILED_TO_SUBSCRIBE)))
  /\ UNCHANGED <<logVars, patterns, alreadySubscribed, envVars, alive,
                 logFileMutex, delivered, events, histVars,
                 advInserted>>

\* AddTopic(topic) inserts the topic and returns NO_ERROR; ++numSubscriptions.
PatternInsert ==
  LET l == loc[App] IN
  /\ alive /\ pc[App] = "ar_ins"
  /\ alreadySubscribed' \in
       InsertOutcomes(alreadySubscribed, l.allTopics[l.i], DiscInserting)
  /\ Goto(App, "ar_loop",
          [l EXCEPT !.i = @ + 1, !.numSubscriptions = @ + 1,
                    !.added = @ + (IF alreadySubscribed' = alreadySubscribed
                                     THEN 0 ELSE 1)])
  /\ Silent
  /\ UNCHANGED <<logVars, patterns, subscribed, envVars, alive, logFileMutex,
                 delivered, events, histVars,
                 advInserted>>

\* The topic does not match: LDBG("Not recording ...").
PatternSkip ==
  LET l == loc[App] IN
  /\ InPatternLoop
  /\ ~RegexMatch(l.allTopics[l.i], l.pattern)
  /\ Goto(App, "ar_loop", [l EXCEPT !.i = @ + 1])
  /\ Silent
  /\ UNCHANGED <<logVars, topicVars, envVars, alive, logFileMutex, delivered,
                 events, histVars>>

\* After the loop: push the pattern and return the count.
PatternPush ==
  LET l == loc[App] IN
  /\ alive /\ pc[App] = "ar_loop" /\ l.i > Len(l.allTopics)
  /\ patterns' = PushBack(patterns, l.pattern)
  /\ Out(NoCall, Returned("AddTopicRegex", RetCount(l.numSubscriptions)))
  /\ Return(App)
  /\ UNCHANGED <<logVars, alreadySubscribed, subscribed, envVars, alive,
                 logFileMutex, delivered, events, histVars,
                 advInserted>>

\* -------------------------------------- RecorderPrivate::OnAdvertisement --
\* (mutant) the comparison always starts at index 0.
StartCmpZero(nodeP) == 0

\* startCmp: 0 when the node's partition begins with a slash, 1 otherwise
\* (nodePartition[0] of an empty string is the terminator).
StartCmp(nodeP) == IF Len(nodeP) > 0 /\ nodeP[1] = "/" THEN 0 ELSE 1

\* strcmp(nodePartition.c_str(), partition.c_str() + startCmp) == 0
PartitionMatches(nodeP, advP) ==
  nodeP = SubSeq(advP, StartCmp(nodeP) + 1, Len(advP))

\* (mutant) the handler does not look the topic up.
FoundNever(set, t) == FALSE

\* if (alreadySubscribed.find(topic) != end()) return;
Found(set, t) == t \in set

\* What the lookup can yield: a find that overlaps an insert by the
\* application thread walks a tree that is being relinked, and can miss a
\* topic that is present or stop at one that is not.
FindOutcomes(set, t) ==
  IF AppInserting THEN BOOLEAN ELSE {Found(set, t)}

\* The discovery thread reports a publisher, whose fully qualified topic
\* decomposes into (partition, topic).  The handler runs up to its first
\* return: an advertisement of another partition, or of a topic found in
\* alreadySubscribed, is ignored.
Advertise ==
  /\ alive /\ pc[Disc] = "idle" /\ events < MaxEvents
  /\ events' = events + 1
  /\ \E q \in AdvPartitions, t \in Topics :
     \E found \in FindOutcomes(alreadySubscribed, t) :
       IF PartitionMatches(nodePartition, q) /\ ~found
         THEN /\ Goto(Disc, "adv_begin",
                      [op |-> "OnAdvertisement", partition |-> q, topic |-> t])
              /\ Silent
         ELSE Return(Disc) /\ Out(NoCall, AdvReturned(q, t, TRUE))
  /\ UNCHANGED <<logVars, topicVars, envVars, alive, logFileMutex, delivered, histVars>>

\* for (const std::regex &pattern : this->patterns): begin() and end() are
\* taken once, when the loop starts.
AdvBegin ==
  /\ alive /\ pc[Disc] = "adv_begin"
  /\ Goto(Disc, "adv_loop",
          [op |-> "OnAdvertisement", partition |-> loc[Disc].partition,
           topic |-> loc[Disc].topic, j |-> 1, end |-> Len(patterns)])
  /\ Silent
  /\ UNCHANGED <<logVars, topicVars, envVars, alive, logFileMutex, delivered,
                 events, histVars>>

\* What regex_match(topic, *it) can yield.  When push_back has run since the
\* loop took its iterators, they may dangle (the vector reallocated) and the
\* read is undefined: either outcome.
AdvMatchOutcomes(l) ==
  IF Len(patterns) = l.end
    THEN {RegexMatch(l.topic, patterns[l.j])}
    ELSE BOOLEAN

\* The pattern matches: AddTopic(topic) subscribes; its result is ignored.
AdvSubscribe ==
  LET l == loc[Disc] IN
  /\ alive /\ pc[Disc] = "adv_loop" /\ l.j <= l.end
  /\ TRUE \in AdvMatchOutcomes(l)
  /\ \E ok \in BOOLEAN :
       /\ SubscribeRaw(l.topic, ok)
       /\ Out(SubscribeCall(l.topic, ok), NoRet)
       /\ IF ok
            THEN Goto(Disc, "adv_ins", l)
            ELSE Goto(Disc, "adv_loop", [l EXCEPT !.j = @ + 1])
  /\ UNCHANGED <<logVars, patterns, alreadySubscribed, envVars, alive,
                 logFileMutex, delivered, events, histVars,
                 advInserted>>

AdvInsert ==
  LET l == loc[Disc] IN
  /\ alive /\ pc[Disc] = "adv_ins"
  /\ alreadySubscribed' \in
       InsertOutcomes(alreadySubscribed, l.topic, AppInserting)
  /\ advInserted' = (IF l.topic \in alreadySubscribed'
                       THEN advInserted \cup {l.topic} ELSE advInserted)
  /\ Goto(Disc, "adv_loop", [l EXCEPT !.j = @ + 1])
  /\ Silent
  /\ UNCHANGED <<logVars, patterns, subscribed, envVars, alive, logFileMutex,
                 delivered, events, histVars>>

AdvNoMatch ==
  LET l == loc[Disc] IN
  /\ alive /\ pc[Disc] = "adv_loop" /\ l.j <= l.end
  /\ FALSE \in AdvMatchOutcomes(l)
  /\ Goto(Disc, "adv_loop", [l EXCEPT !.j = @ + 1])
  /\ Silent
  /\ UNCHANGED <<logVars, topicVars, envVars, alive, logFileMutex, delivered,
                 events, histVars>>

AdvDone ==
  /\ alive /\ pc[Disc] = "adv_loop" /\ loc[Disc].j > loc[Disc].end
  /\ Return(Disc)
  /\ Out(NoCall, AdvReturned(loc[Disc].partition, loc[Disc].topic, FALSE))
  /\ UNCHANGED <<logVars, topicVars, envVars, alive, logFileMutex, delivered,
                 events, histVars>>

\* ---------------------------------------------------------------- Next ---
Next ==
  \/ CallStart \/ StartLock \/ StartBody
  \/ CallStop \/ CallDestructor \/ StopLock \/ StopBody
  \/ \E t \in Topics : Deliver(t)
  \/ \E t \in Topics : MsgLock(t)
  \/ \E t \in Topics : MsgBody(t)
  \/ CallAddTopic \/ AddTopicInsert
  \/ CallAddPattern \/ PatternSubscribe \/ PatternInsert \/ PatternSkip \/ PatternPush
  \/ Advertise \/ AdvBegin \/ AdvSubscribe \/ AdvInsert \/ AdvNoMatch \/ AdvDone

Spec == Init /\ [][Next]_vars


\* ============================================================ Packet.cc ==
PacketFrame == UNCHANGED <<recorderVars, endian, sender>>

\* A call that wrote or read outside the buffer's region: undefined.  It
\* returns v or ends the process.
Undefined(op, v) ==
  /\ defined' = FALSE
  /\ packetRet' \in {PacketReturned(op, v), PacketCrashed(op)}

\* What the buffer holds after the header has been packed into it.
HeaderPacked == IF packed = "message" THEN "message" ELSE "header"

\* size_t Header::Pack(char *_buffer) const, on the sender's header.
HeaderPack ==
  LET h == sender.header IN
  /\ defined
  /\ IF Incomplete(h) \/ buffer.null
       THEN /\ packetRet' = PacketReturned("Header::Pack", 0)
            /\ UNCHANGED <<buffer, packed, defined>>
       ELSE /\ buffer' = PackedHeader(buffer, h, endian)
            /\ IF Fits(buffer, 0, HeaderLength(h))
                 THEN /\ packetRet' = PacketReturned("Header::Pack", HeaderLength(h))
                      /\ packed' = HeaderPacked
                      /\ UNCHANGED defined
                 ELSE /\ Undefined("Header::Pack", HeaderLength(h))
                      /\ packed' = "nothing"
  /\ UNCHANGED receiver
  /\ PacketFrame

\* size_t Header::Unpack(const char *_buffer), on the receiver's header.
HeaderUnpack ==
  /\ defined
  /\ IF buffer.null
       THEN /\ packetRet' = PacketReturned("Header::Unpack", 0)
            /\ UNCHANGED <<receiver, defined>>
       ELSE IF HeaderReadable(buffer, endian)
         THEN LET h == UnpackedHeader(buffer, endian) IN
              /\ receiver' = [receiver EXCEPT !.header = h]
              /\ packetRet' = PacketReturned("Header::Unpack", HeaderLength(h))
              /\ UNCHANGED defined
         ELSE /\ receiver' \in {receiver, [receiver EXCEPT !.header = GarbageHeader]}
              /\ Undefined("Header::Unpack", HeaderLength(receiver'.header))
  /\ UNCHANGED <<buffer, packed>>
  /\ PacketFrame

\* size_t SubscriptionMsg::Pack(char *_buffer) const, on the sender.
SubscriptionPack ==
  LET h   == sender.header
      off == HeaderLength(h) IN
  /\ defined
  /\ IF Incomplete(h) \/ buffer.null
       THEN /\ packetRet' = PacketReturned("SubscriptionMsg::Pack", 0)
            /\ UNCHANGED <<buffer, packed, defined>>
       ELSE IF ~Fits(buffer, 0, off)
         THEN /\ buffer' = (IF sender.topic = <<>>
                              THEN PackedHeader(buffer, h, endian)
                              ELSE PackedBody(PackedHeader(buffer, h, endian),
                                              off, sender.topic, endian))
              /\ Undefined("SubscriptionMsg::Pack",
                           IF sender.topic = <<>> THEN 0 ELSE MsgLength(sender))
              /\ packed' = "nothing"
       ELSE IF sender.topic = <<>>
         THEN /\ buffer' = PackedHeader(buffer, h, endian)
              /\ packetRet' = PacketReturned("SubscriptionMsg::Pack", 0)
              /\ packed' = HeaderPacked
              /\ UNCHANGED defined
       ELSE /\ buffer' = PackedBody(PackedHeader(buffer, h, endian), off,
                                    sender.topic, endian)
            /\ IF Fits(buffer, off, 8 + Len(sender.topic))
                 THEN /\ packetRet' =
                           PacketReturned("SubscriptionMsg::Pack", MsgLength(sender))
                      /\ packed' = "message"
                      /\ UNCHANGED defined
                 ELSE /\ Undefined("SubscriptionMsg::Pack", MsgLength(sender))
                      /\ packed' = "nothing"
  /\ UNCHANGED receiver
  /\ PacketFrame

\* size_t SubscriptionMsg::Unpack(char *_buffer): the caller has unpacked the
\* header and passes the buffer advanced by the length that call returned.
SubscriptionUnpack ==
  LET off == packetRet.val IN
  /\ defined
  /\ packetRet.op = "Header::Unpack"
  /\ IF buffer.null
       THEN /\ packetRet' = PacketReturned("SubscriptionMsg::Unpack", 0)
            /\ UNCHANGED <<receiver, defined>>
       ELSE IF BodyReadable(buffer, off, endian)
         THEN LET L == StoredTopicLength(buffer, off, endian) IN
              /\ receiver' = [receiver EXCEPT !.topic = Fetch(buffer, off + 8, L)]
              /\ packetRet' = PacketReturned("SubscriptionMsg::Unpack", 8 + L)
              /\ UNCHANGED defined
         ELSE /\ receiver' \in {receiver, [receiver EXCEPT !.topic = <<255>>]}
              /\ Undefined("SubscriptionMsg::Unpack", 8 + Len(receiver'.topic))
  /\ UNCHANGED <<buffer, packed>>
  /\ PacketFrame

PacketInit ==
  /\ RecorderInit(<<"/", "r">>)
  /\ PacketObjects(ByteOrders, Headers, PacketTopics, OldHeaders, Buffers)

PacketNext ==
  \/ HeaderPack \/ HeaderUnpack \/ SubscriptionPack \/ SubscriptionUnpack

PacketSpec == PacketInit /\ [][PacketNext]_vars

\* ================================================================ claims ==
\* The steps the claims speak about, told by what they do to pc.
StartStep   == pc[App] = "start_body" /\ pc'[App] = "idle"
StopStep    == pc[App] = "stop_body" /\ pc'[App] = "idle"
MsgStep(t)  == pc[SubThread(t)] = "msg_body" /\ pc'[SubThread(t)] = "idle"

\* C1: when OnMessageReceived runs its critical section while logFile is
\* null, it makes no InsertMessage call and changes nothing of the recorder:
\* not the log, not the rows inserted, not patterns, alreadySubscribed or the
\* subscriptions.
C1_NoInsertWhileNotRecording ==
  [][\A t \in Topics :
       (MsgStep(t) /\ logFile = None)
         => /\ call'.kind # "InsertMessage"
            /\ inserted' = inserted
            /\ logFile' = None
            /\ UNCHANGED <<patterns, alreadySubscribed, subscribed>>]_vars

\* A handler has just returned without any call, and the last thing done to
\* the log was a Stop.
C1_Witness ==
  /\ ret = Returned("OnMessageReceived", RetVoid)
  /\ call = NoCall
  /\ lastLog[2] = "Stop"

\* C2: once a Start has returned NO_ERROR and no Stop has run since, a Start
\* returns ALREADY_RECORDING, calls no Open, and leaves logFile the log that
\* was opened.
C2_StartWhileRecording ==
  [][(StartStep /\ startedOn # None)
       => /\ ret' = Returned("Start", RetErr(ALREADY_RECORDING))
          /\ call'.kind # "Open"
          /\ logFile = startedOn
          /\ logFile' = logFile]_vars

\* A Start has just been refused while the log opened earlier is in place.
C2_Witness ==
  /\ ret = Returned("Start", RetErr(ALREADY_RECORDING))
  /\ lastLog = <<NO_ERROR, ALREADY_RECORDING>>
  /\ logFile = startedOn /\ logFile # None

\* C3: the first Start after a Stop is never refused: it calls Open, and when
\* Open succeeds it returns NO_ERROR and leaves logFile set to the new log;
\* and a message handled while logFile is set is inserted into that log.
C3_StartAfterStop ==
  [][/\ (StartStep /\ lastLog[2] = "Stop")
          => /\ ret' # Returned("Start", RetErr(ALREADY_RECORDING))
             /\ call'.kind = "Open" /\ call'.path = loc[App].file
             /\ call'.ok => /\ ret' = Returned("Start", RetErr(NO_ERROR))
                            /\ logFile' = loc[App].file
     /\ \A t \in Topics :
          (MsgStep(t) /\ logFile # None)
            => /\ call'.kind = "InsertMessage" /\ call'.path = logFile
               /\ inserted'[t] =
                    Append(inserted[t], [path |-> logFile, seq |-> loc[SubThread(t)].seq])
    ]_vars

\* After a Stop, a Start succeeded and a message has just been inserted into
\* the log it opened.
C3_Witness ==
  /\ lastLog = <<"Stop", NO_ERROR>>
  /\ call.kind = "InsertMessage" /\ call.path = logFile
  /\ \E t \in Topics : inserted[t] # <<>>

\* C5: a Start whose Open fails returns FAILED_TO_OPEN and leaves logFile
\* null; until the next Start, no message is inserted, and that Start is not
\* refused with ALREADY_RECORDING.
C5_FailedOpen ==
  [][/\ (StartStep /\ call'.kind = "Open" /\ ~call'.ok)
          => /\ ret' = Returned("Start", RetErr(FAILED_TO_OPEN))
             /\ logFile' = None
     /\ (lastLog[2] = FAILED_TO_OPEN)
          => /\ logFile = None
             /\ \A t \in Topics :
                  MsgStep(t) => call'.kind # "InsertMessage" /\ inserted' = inserted
             /\ StartStep => ret' # Returned("Start", RetErr(ALREADY_RECORDING))
    ]_vars

\* A Start failed to open its file and the next Start succeeded.
C5_Witness ==
  /\ lastLog = <<FAILED_TO_OPEN, NO_ERROR>>
  /\ ret = Returned("Start", RetErr(NO_ERROR))
  /\ logFile # None

\* C6: Stop leaves logFile null and touches nothing else; a Stop that follows
\* a Stop changes nothing at all; Start and Stop leave patterns,
\* alreadySubscribed and the subscriptions as they are, and no step ever
\* cancels a subscription.
C6_StopOnlyLog ==
  [][/\ StopStep
          => /\ logFile' = None
             /\ UNCHANGED <<patterns, alreadySubscribed, subscribed, inserted>>
     /\ (StopStep /\ lastLog[2] = "Stop")
          => UNCHANGED <<logFile, startedOn, patterns, alreadySubscribed,
                         subscribed, inserted>>
     /\ StartStep => UNCHANGED <<patterns, alreadySubscribed, subscribed>>
     /\ \A t \in Topics : subscribed'[t] >= subscribed[t]
    ]_vars

\* Two Stops in a row have run, and a subscribed topic's message has just
\* been handled (and dropped).
C6_Witness ==
  /\ lastLog = <<"Stop", "Stop">>
  /\ alive
  /\ ret = Returned("OnMessageReceived", RetVoid)
  /\ logFile = None

\* C4: at most one SubscribeRaw(t) call returns true, for every topic t.
\* (subscribed[t] counts the successful SubscribeRaw(t) calls.)
C4_AtMostOneSubscribe ==
  \A t \in Topics : subscribed[t] <= 1

\* The steps of AddTopic(regex) and of OnAdvertisement.
PatternReturn == pc[App] = "ar_loop" /\ pc'[App] = "idle"
PatternFails  == PatternReturn /\ ret'.val = RetErr(FAILED_TO_SUBSCRIBE)
AdvLoopStep   == pc[Disc] = "adv_loop" /\ loc[Disc].j <= loc[Disc].end
AdvLoopMoves  == AdvLoopStep /\ <<pc[Disc], loc[Disc]>>' # <<pc[Disc], loc[Disc]>>
AdvReturn     == pc[Disc] = "adv_loop" /\ pc'[Disc] = "idle"

\* C7: AddTopic(regex) returns either after its loop over allTopics, and then
\* patterns is the old patterns with the pattern appended (whatever matched),
\* or from inside the loop on a failed subscription, and then patterns and
\* alreadySubscribed are as they were before the failing step (nothing is
\* undone); no other step of the call changes patterns.
C7_PatternAppended ==
  [][/\ PatternReturn
          => IF loc[App].i > Len(loc[App].allTopics)
               THEN /\ patterns' = Append(patterns, loc[App].pattern)
                    /\ ret' = Returned("AddTopicRegex",
                                       RetCount(loc[App].numSubscriptions))
               ELSE /\ ret' = Returned("AddTopicRegex", RetErr(FAILED_TO_SUBSCRIBE))
                    /\ patterns' = patterns
                    /\ alreadySubscribed' = alreadySubscribed
                    /\ \A t \in Topics : subscribed'[t] = subscribed[t]
     /\ (pc[App] \in {"ar_loop", "ar_ins"} /\ ~PatternReturn)
          => patterns' = patterns
    ]_vars

\* A call that matched nothing has just returned 0 and its pattern stands
\* last, behind a different pattern added before it.
C7_Witness ==
  /\ ret = Returned("AddTopicRegex", RetCount(0))
  /\ Len(patterns) = 2
  /\ patterns[1] # patterns[2]

\* C8: when AddTopic(regex) does not fail, it returns the number of topics
\* the call added to alreadySubscribed.
C8_ReturnsNewSubscriptions ==
  [][(PatternReturn /\ ~PatternFails)
       => ret' = Returned("AddTopicRegex", RetCount(loc[App].added))]_vars

PacketStep(op) == packetRet'.op = op /\ defined
SenderHeaderValid ==
  /\ sender.header.version # 0
  /\ sender.header.pUuid # <<>>
  /\ sender.header.type # Uninitialized
SenderHeaderLength == 13 + Len(sender.header.pUuid)
SenderMsgLength == SenderHeaderLength + 8 + Len(sender.topic)

\* C11: packing a header that is valid for packing into a buffer that has
\* room for it returns 13 + len(process_uuid), and unpacking the bytes Pack
\* has produced gives a header equal to the packed one in its four fields
\* and returns the same length.
C11_HeaderRoundTrip ==
  [][/\ (PacketStep("Header::Pack") /\ SenderHeaderValid /\ ~buffer.null
           /\ buffer.cap >= SenderHeaderLength)
          => /\ packetRet' = PacketReturned("Header::Pack", SenderHeaderLength)
             /\ packed' # "nothing"
     /\ (PacketStep("Header::Unpack") /\ packed # "nothing")
          => /\ receiver'.header = sender.header
             /\ packetRet' = PacketReturned("Header::Unpack", SenderHeaderLength)
    ]_vars

\* A header whose version and flags have two different bytes and whose uuid
\* has two bytes has been packed and unpacked on a big-endian host, over a
\* receiver that held other values.
C11_Witness ==
  /\ packetRet = PacketReturned("Header::Unpack", 15)
  /\ packed = "header"
  /\ endian = "big"
  /\ sender.header.version = 258 /\ sender.header.flags = 513
  /\ receiver.header = sender.header

C12_PackZeroWithRoom ==
  [][/\ (PacketStep("Header::Pack")
           /\ (buffer.null \/ buffer.cap >= SenderHeaderLength))
          => IF ~SenderHeaderValid \/ buffer.null
               THEN /\ packetRet' = PacketReturned("Header::Pack", 0)
                    /\ buffer' = buffer
               ELSE /\ packetRet' = PacketReturned("Header::Pack", SenderHeaderLength)
                    /\ SenderHeaderLength # 0
     /\ (PacketStep("Header::Pack") /\ ~SenderHeaderValid)
          => /\ packetRet' = PacketReturned("Header::Pack", 0)
             /\ buffer' = buffer
     /\ (PacketStep("Header::Unpack") /\ buffer.null)
          => /\ packetRet' = PacketReturned("Header::Unpack", 0)
             /\ receiver' = receiver
    ]_vars

\* C13: packing a subscription message with a valid header and a non-empty
\* topic into a buffer that has room for it returns header_length + 8 +
\* len(topic); Header::Unpack at offset 0 and SubscriptionMsg::Unpack at the
\* offset that call returned give back the header and the topic, and the two
\* lengths they return add up to what Pack returned.
C13_SubscriptionRoundTrip ==
  [][/\ (PacketStep("SubscriptionMsg::Pack") /\ SenderHeaderValid
           /\ sender.topic # <<>> /\ ~buffer.null
           /\ buffer.cap >= SenderMsgLength)
          => /\ packetRet' = PacketReturned("SubscriptionMsg::Pack", SenderMsgLength)
             /\ packed' = "message"
     /\ (PacketStep("SubscriptionMsg::Unpack") /\ packed = "message")
          => /\ receiver'.header = sender.header
             /\ receiver'.topic = sender.topic
             /\ packetRet = PacketReturned("Header::Unpack", SenderHeaderLength)
             /\ packetRet'.val = 8 + Len(sender.topic)
             /\ packetRet.val + packetRet'.val = SenderMsgLength
    ]_vars

\* A message with a two-byte topic has been packed, and the header and the
\* body have been unpacked from the buffer.
C13_Witness ==
  /\ packetRet = PacketReturned("SubscriptionMsg::Unpack", 10)
  /\ packed = "message"
  /\ Len(sender.header.pUuid) = 2
  /\ receiver = sender

C14_SubscriptionPackWithRoom ==
  [][(PacketStep("SubscriptionMsg::Pack")
        /\ (buffer.null \/ buffer.cap >= SenderMsgLength))
       => /\ IF ~SenderHeaderValid \/ sender.topic = <<>> \/ buffer.null
               THEN packetRet' = PacketReturned("SubscriptionMsg::Pack", 0)
               ELSE packetRet' = PacketReturned("SubscriptionMsg::Pack",
                                                SenderMsgLength)
          /\ (~SenderHeaderValid \/ buffer.null) => buffer' = buffer
          /\ (SenderHeaderValid /\ ~buffer.null /\ sender.topic = <<>>)
               => /\ Fetch(buffer', 0, SenderHeaderLength)
                       = Fetch(PackedHeader(buffer, sender.header, endian), 0,
                               SenderHeaderLength)
                  /\ packed' # "nothing"
    ]_vars

\* ------------------------------------------- recorder claims, continued --
Quiescent == pc[App] = "idle" /\ pc[Disc] = "idle"
Succeeded == {t \in Topics : subscribed[t] > 0}
\* AddTopic(name) is entered (a new call: events grows) and calls SubscribeRaw.
AddTopicSubscribes ==
  pc[App] = "idle" /\ events' = events + 1 /\ call'.kind = "SubscribeRaw"
AddTopicFails ==
  pc[App] = "idle" /\ ret' = Returned("AddTopic", RetErr(FAILED_TO_SUBSCRIBE))
AddTopicInserts == pc[App] = "at_ins" /\ pc'[App] = "idle"

\* C15: whenever no AddTopic call and no advertisement handler is in
\* progress, alreadySubscribed is exactly the set of topics for which a
\* SubscribeRaw call has returned true; AddTopic(name) returns
\* FAILED_TO_SUBSCRIBE exactly when SubscribeRaw returned false, leaving
\* alreadySubscribed as it was, and otherwise returns NO_ERROR with the topic
\* in alreadySubscribed.
C15_SubscribedExactly ==
  [][/\ Quiescent' => alreadySubscribed' = Succeeded'
     /\ AddTopicFails
          => /\ call'.kind = "SubscribeRaw" /\ ~call'.ok
             /\ alreadySubscribed' = alreadySubscribed
     /\ (AddTopicSubscribes /\ ~call'.ok) => AddTopicFails
     /\ AddTopicInserts
          => /\ ret' = Returned("AddTopic", RetErr(NO_ERROR))
             /\ loc[App].topic \in alreadySubscribed'
    ]_vars

\* C15 without overlapping inserts: alreadySubscribed never holds a topic
\* that was not subscribed with success, and an insert that does not overlap
\* the other thread's insert adds its topic.
C15_InsertsWithoutRace ==
  [][/\ alreadySubscribed' \subseteq Succeeded'
     /\ AddTopicFails
          => /\ call'.kind = "SubscribeRaw" /\ ~call'.ok
             /\ alreadySubscribed' = alreadySubscribed
     /\ (AddTopicSubscribes /\ ~call'.ok) => AddTopicFails
     /\ (AddTopicInserts /\ ~DiscInserting)
          => /\ ret' = Returned("AddTopic", RetErr(NO_ERROR))
             /\ alreadySubscribed' = alreadySubscribed \cup {loc[App].topic}
     /\ (pc[App] = "ar_ins" /\ pc'[App] # "ar_ins" /\ ~DiscInserting)
          => alreadySubscribed' =
               alreadySubscribed \cup {loc[App].allTopics[loc[App].i]}
     /\ (pc[Disc] = "adv_ins" /\ pc'[Disc] # "adv_ins" /\ ~AppInserting)
          => alreadySubscribed' = alreadySubscribed \cup {loc[Disc].topic}
    ]_vars

\* C16: when one AddTopic(regex) call and one advertisement handler are all
\* that has run (events = 2), a SubscribeRaw(t) call of the handler is never
\* a second one: the AddTopic(regex) call has not subscribed to t.
C16_NoDoubleSubscriptionRace ==
  [][(AdvLoopMoves /\ events = 2 /\ call'.kind = "SubscribeRaw")
       => subscribed[call'.topic] = 0]_vars

\* The steps that read or write patterns or alreadySubscribed.
AppTopicAccess ==
  \/ pc[App] \in {"at_ins", "ar_ins"} /\ pc'[App] # pc[App]
  \/ pc[App] = "ar_loop" /\ pc'[App] = "idle" /\ patterns' # patterns
DiscTopicAccess ==
  \/ pc[Disc] = "idle" /\ pc'[Disc] = "adv_begin"
  \/ pc[Disc] = "idle" /\ ret'.op = "OnAdvertisement"
       /\ PartitionMatches(nodePartition, ret'.partition)
  \/ pc[Disc] \in {"adv_begin", "adv_ins"} /\ pc'[Disc] # pc[Disc]
  \/ AdvLoopMoves

\* C17: every step of AddTopic(name), AddTopic(regex) and OnAdvertisement
\* that reads or writes patterns or alreadySubscribed is made by the thread
\* that holds topicMutex, and the two threads never stand at a write of
\* alreadySubscribed at the same time.
C17_TopicMutexHeld ==
  [][/\ AppTopicAccess => topicMutex = App
     /\ DiscTopicAccess => topicMutex = Disc
     /\ ~(AppInserting /\ DiscInserting)'
    ]_vars

LogBodies == {"start_body", "stop_body", "msg_body"}
InLogBody(t) == pc[t] \in LogBodies

\* C18: a thread is inside the body of Start, of Stop (the destructor's
\* included) or of OnMessageReceived only while it holds logFileMutex, so at
\* most one thread is; every step that tests or changes logFile or calls
\* Open or InsertMessage is the step of the thread that holds the mutex, and
\* it releases the mutex when it returns.
C18_LogMutexHeld ==
  [][/\ \A t \in Threads : InLogBody(t)' => logFileMutex' = t
     /\ \A t, u \in Threads : (InLogBody(t)' /\ InLogBody(u)') => t = u
     /\ (logFile' # logFile \/ call'.kind \in {"Open", "InsertMessage"})
          => /\ logFileMutex # Unlocked
             /\ InLogBody(logFileMutex)
             /\ pc'[logFileMutex] = "idle"
             /\ logFileMutex' = Unlocked
     /\ \A t \in Threads : (InLogBody(t) /\ pc'[t] # pc[t])
          => logFileMutex = t /\ logFileMutex' = Unlocked
    ]_vars

\* Stop holds the mutex in its body while the log is open and a message
\* handler waits for the mutex.
C18_Witness ==
  /\ pc[App] = "stop_body"
  /\ logFileMutex = App
  /\ logFile # None
  /\ \E t \in Topics : pc[SubThread(t)] = "msg_lock"

\* The partition rule as the specification words it: compare the node's
\* partition with the advertised one from offset 0 when the node's partition
\* begins with a slash, from offset 1 otherwise.
SamePartition(nodeP, advP) ==
  IF nodeP # <<>> /\ Head(nodeP) = "/" THEN nodeP = advP ELSE nodeP = Tail(advP)
AdvEnters == pc[Disc] = "idle" /\ pc'[Disc] = "adv_begin"
AdvIgnored == pc[Disc] = "idle" /\ ret'.op = "OnAdvertisement"

\* C19: an advertisement gets past the partition check exactly when its
\* partition is the node's by that rule; one that does not returns at once,
\* with no SubscribeRaw call and nothing of the recorder changed; one that
\* does, for a topic not in alreadySubscribed (and no insert by the
\* application thread under way), goes on to the patterns.
C19_PartitionCheck ==
  [][/\ AdvEnters => SamePartition(nodePartition, loc'[Disc].partition)
     /\ AdvIgnored
          => /\ call' = NoCall
             /\ UNCHANGED <<patterns, alreadySubscribed, subscribed, logFile,
                            inserted, logFileMutex>>
             /\ (SamePartition(nodePartition, ret'.partition) /\ ~AppInserting)
                  => ret'.topic \in alreadySubscribed
     /\ (pc[Disc] = "idle" /\ pc'[Disc] # "idle")
          => AdvEnters
    ]_vars

\* On a node whose partition has no leading slash, an advertisement of
\* another partition has just been dropped although a pattern matches its
\* topic and the topic is not subscribed.
C19_Witness ==
  /\ ret.op = "OnAdvertisement" /\ ret.ignored
  /\ nodePartition = <<"r">>
  /\ ret.partition = <<"/", "o">>
  /\ ret.topic \notin alreadySubscribed
  /\ \E j \in 1..Len(patterns) : RegexMatch(ret.topic, patterns[j])

\* C20: for a message delivered while logFile is set, the handler calls
\* InsertMessage once, with that message, whatever the call returns: logFile
\* stays as it is, the handler returns nothing to its caller and releases
\* the mutex, and no message is inserted twice.
C20_BestEffortInsert ==
  [][\A t \in Topics :
       (MsgStep(t) /\ logFile # None)
         => /\ call'.kind = "InsertMessage"
            /\ call'.topic = t /\ call'.seq = loc[SubThread(t)].seq
            /\ call'.path = logFile
            /\ logFile' = logFile
            /\ ret' = Returned("OnMessageReceived", RetVoid)
            /\ Len(inserted'[t]) = Len(inserted[t]) + 1
            /\ inserted'[t][Len(inserted'[t])] =
                 [path |-> logFile, seq |-> loc[SubThread(t)].seq]
            /\ \A u \in Topics : u # t => inserted'[u] = inserted[u]
    ]_vars

\* The InsertMessage of a topic's second message has just returned false;
\* the log is still open and the handler has returned.
C20_Witness ==
  /\ call.kind = "InsertMessage" /\ ~call.ok
  /\ call.seq = 2
  /\ Len(inserted[call.topic]) = 2
  /\ logFile # None
  /\ ret = Returned("OnMessageReceived", RetVoid)

====
